---- MODULE Spec2Model ----
(***************************************************************************)
(* Model of backend/utils.py of the recipe chatbot: the module-level       *)
(* start-up code (load_dotenv, SYSTEM_PROMPT, MODEL_NAME) and the one      *)
(* function get_agent_response, run by one or two callers.                 *)
(*                                                                         *)
(* Python lists are objects with identity: `heap` maps a list reference to *)
(* the list's current elements, and a local variable holds a reference.    *)
(* Texts are sequences of one-character strings so that str.strip() is     *)
(* computed, character by character.                                       *)
(***************************************************************************)
EXTENDS Integers, Sequences, FiniteSets, TLC

VARIABLES
    module_pc,      \* position in the module-level code of utils.py
    os_environ,     \* os.environ: a dict, its DOMAIN is the set of keys present
    dotenv_file,    \* the key/value pairs of the .env file
    SYSTEM_PROMPT,  \* module global, <<>> until line 20 has run
    MODEL_NAME,     \* module global, "<unset>" until line 48 has run
    pc,             \* per caller: position inside get_agent_response
    locals,         \* per frame: the local variables of get_agent_response
    heap,           \* list reference -> elements
    result,         \* per caller: the reference returned (NoRef when none)
    exc,            \* per caller: the exception that left the function
    input,          \* history: the elements of the argument at the call
    got,            \* history: what litellm.completion did for this call
    calls,          \* history: calls of litellm.completion in this invocation
    sent,           \* history: the arguments of the last litellm.completion call
    turn,           \* history: invocations so far in the caller's session
    first           \* history: the first conversation returned in the session

vars == << module_pc, os_environ, dotenv_file, SYSTEM_PROMPT, MODEL_NAME, pc,
           locals, heap, result, exc, input, got, calls, sent, turn, first >>

(* ------------------------------ bounds -------------------------------- *)

MaxHistLen == 2     \* longest history a caller passes in
MaxReplyLen == 3    \* longest reply text the provider returns
MaxConcLen == 1     \* longest history when two callers run concurrently
MaxTurns == 2       \* invocations in one multi-turn session

Threads == {"t1", "t2"}

(* ------------------------------ texts --------------------------------- *)

Whitespace == {" ", "\n"}
Chars == Whitespace \cup {"a"}

RECURSIVE TextsOfLen(_)
TextsOfLen(n) ==
    IF n = 0 THEN {<<>>}
    ELSE {<<c>> \o s : c \in Chars, s \in TextsOfLen(n - 1)}

Texts(n) == UNION {TextsOfLen(k) : k \in 0..n}

RECURSIVE LStrip(_)
LStrip(s) ==
    IF s = <<>> THEN s
    ELSE IF Head(s) \in Whitespace THEN LStrip(Tail(s)) ELSE s

RECURSIVE RStrip(_)
RStrip(s) ==
    IF s = <<>> THEN s
    ELSE IF s[Len(s)] \in Whitespace THEN RStrip(SubSeq(s, 1, Len(s) - 1)) ELSE s

\* a slip: str.lstrip() in place of str.strip()
StripLeftOnly(s) == LStrip(s)

\* str.strip() with no argument
Strip(s) == RStrip(LStrip(s))

(* ----------------------------- messages ------------------------------- *)

SystemPromptText == <<"A", "s", " ", "a">>
CustomPromptText == <<"c">>
UserText == <<"h", "i">>
DefaultModel == "gpt-4o-mini"

Msg(r, c) == [role |-> r, content |-> c]

SystemMessage == Msg("system", SYSTEM_PROMPT)

InputMessages ==
    { Msg("system", SystemPromptText), Msg("system", CustomPromptText),
      Msg("user", UserText), Msg("assistant", UserText), Msg("tool", UserText) }

NonSystemMessages == {m \in InputMessages : m.role # "system"}

RECURSIVE SeqsOfLen(_, _)
SeqsOfLen(S, n) ==
    IF n = 0 THEN {<<>>}
    ELSE {<<x>> \o s : x \in S, s \in SeqsOfLen(S, n - 1)}

Histories(n) == UNION {SeqsOfLen(InputMessages, k) : k \in 0..n}

(* --------------------- environment and provider ----------------------- *)

EnvKeys == {"MODEL_NAME", "API_KEY"}

\* the dicts os.environ can be when the module is imported
OsEnvs ==
    { [k \in D |-> IF k = "MODEL_NAME" THEN "model-from-env" ELSE "key-from-env"] :
        D \in SUBSET EnvKeys }

\* the .env files load_dotenv can find: none (or an empty one), or one that
\* sets both keys
DotEnvs ==
    { [k \in D |-> IF k = "MODEL_NAME" THEN "model-from-dotenv" ELSE "key-from-dotenv"] :
        D \in {{}, EnvKeys} }

\* load_dotenv(override=False): a key already in os.environ keeps its value
LoadDotenv(env, file) == env @@ file

\* os.environ.get(key, default)
EnvironGet(env, key, default) == IF key \in DOMAIN env THEN env[key] ELSE default

\* the credential litellm needs is in the environment
HasCredential == "API_KEY" \in DOMAIN os_environ

\* the exceptions litellm.completion raises
ProviderErrors == {"APIConnectionError", "AuthenticationError", "RateLimitError"}

\* the exceptions indexing the completion and calling .strip() can raise
ExtractionErrors == {"KeyError", "IndexError", "AttributeError"}

Content(text) == [present |-> TRUE, text |-> text]
NoneContent == [present |-> FALSE, text |-> <<>>]

Contents(n) == {Content(s) : s \in Texts(n)} \cup {NoneContent}

NoChoicesKey == [has_choices |-> FALSE, choices |-> <<>>]
Choices(cs) == [has_choices |-> TRUE, choices |-> cs]

\* what litellm.completion can return: no "choices" entry, an empty list, one
\* choice, or two choices of which the code reads the first
Responses(n) ==
    {NoChoicesKey, Choices(<<>>)}
    \cup {Choices(<<c>>) : c \in Contents(n)}
    \cup {Choices(<<c, Content(<<"a", "a">>)>>) : c \in {NoneContent, Content(<<" ", "a">>)}}

Raises(e) == [kind |-> "error", err |-> e, resp |-> NoChoicesKey]
Returns(r) == [kind |-> "response", err |-> "", resp |-> r]
NoOutcome == [kind |-> "none", err |-> "", resp |-> NoChoicesKey]

Outcomes == {Raises(e) : e \in ProviderErrors} \cup {Returns(r) : r \in Responses(MaxReplyLen)}

\* the outcomes used when two callers interleave, and in multi-turn sessions
FewOutcomes ==
    { Raises("RateLimitError"), Returns(Choices(<<>>)),
      Returns(Choices(<<Content(<<" ", "a">>)>>)),
      Returns(Choices(<<Content(<<"a", "\n">>)>>)),
      Returns(Choices(<<Content(<<>>)>>)) }

(* ------------------------------ the heap ------------------------------ *)

NoRef == <<"none", "none">>
ArgRef(t) == <<t, "messages">>
PrefixedRef(t) == <<t, "current_messages">>
UpdatedRef(t) == <<t, "updated_messages">>
RefsOf(t) == {ArgRef(t), PrefixedRef(t), UpdatedRef(t)}

EmptyHeap == [r \in {} |-> <<>>]
Alloc(hp, r, xs) == (r :> xs) @@ hp
Free(hp, rs) == [r \in (DOMAIN hp) \ rs |-> hp[r]]

NoLocals ==
    [ messages |-> NoRef, current_messages |-> NoRef,
      completion |-> NoChoicesKey, assistant_reply_content |-> <<>> ]

NoSent == [model |-> "", messages |-> <<>>]

\* a slip: current_messages and the other locals kept in one module-level frame
SharedFrame(t) == "t1"

\* every invocation has its own frame of local variables
Frame(t) == t

Local(t) == locals[Frame(t)]

(* ----------------------- module-level code ---------------------------- *)

ModuleUnchanged == UNCHANGED << module_pc, os_environ, dotenv_file, SYSTEM_PROMPT, MODEL_NAME >>
CallersUnchanged ==
    UNCHANGED << pc, locals, heap, result, exc, input, got, calls, sent, turn, first >>

\* line 16
RunLoadDotenv ==
    /\ module_pc = "load_dotenv"
    /\ os_environ' = LoadDotenv(os_environ, dotenv_file)
    /\ module_pc' = "SYSTEM_PROMPT"
    /\ UNCHANGED << dotenv_file, SYSTEM_PROMPT, MODEL_NAME >>
    /\ CallersUnchanged

\* lines 20-45
DefineSystemPrompt ==
    /\ module_pc = "SYSTEM_PROMPT"
    /\ SYSTEM_PROMPT' = SystemPromptText
    /\ module_pc' = "MODEL_NAME"
    /\ UNCHANGED << os_environ, dotenv_file, MODEL_NAME >>
    /\ CallersUnchanged

\* a change: the module checks the credential and refuses to load without it
DefineModelNameChecked ==
    /\ module_pc = "MODEL_NAME"
    /\ MODEL_NAME' = EnvironGet(os_environ, "MODEL_NAME", DefaultModel)
    /\ module_pc' = IF HasCredential THEN "ready" ELSE "ConfigurationError"
    /\ UNCHANGED << os_environ, dotenv_file, SYSTEM_PROMPT >>
    /\ CallersUnchanged

\* line 48
DefineModelName ==
    /\ module_pc = "MODEL_NAME"
    /\ MODEL_NAME' = EnvironGet(os_environ, "MODEL_NAME", DefaultModel)
    /\ module_pc' = "ready"
    /\ UNCHANGED << os_environ, dotenv_file, SYSTEM_PROMPT >>
    /\ CallersUnchanged

(* ------------------------ get_agent_response -------------------------- *)

\* a slip: the test looks at the last element, messages[-1]
NeedsSystemPromptLast(xs) == xs = <<>> \/ xs[Len(xs)].role # "system"

\* a slip: the prompt is prepended whatever the history starts with
NeedsSystemPromptAlways(xs) == TRUE

\* line 71: not messages or messages[0]["role"] != "system"
NeedsSystemPrompt(xs) == xs = <<>> \/ xs[1].role # "system"

\* a slip: the prompt takes the place of the first element, [...] + messages[1:]
EffectiveHistoryReplacing(hp, t, m) ==
    IF NeedsSystemPrompt(hp[m])
    THEN [ heap |-> Alloc(hp, PrefixedRef(t),
                          <<SystemMessage>> \o
                          (IF hp[m] = <<>> THEN <<>> ELSE Tail(hp[m]))),
           ref |-> PrefixedRef(t) ]
    ELSE [heap |-> hp, ref |-> m]

\* lines 71-74: a new list with the prompt in front, or the argument itself
EffectiveHistory(hp, t, m) ==
    IF NeedsSystemPrompt(hp[m])
    THEN [ heap |-> Alloc(hp, PrefixedRef(t), <<SystemMessage>> \o hp[m]),
           ref |-> PrefixedRef(t) ]
    ELSE [heap |-> hp, ref |-> m]

\* a slip: missing parts of the completion read as an empty reply
ExtractReplyLenient(resp) ==
    IF resp.has_choices /\ resp.choices # <<>> /\ resp.choices[1].present
    THEN [err |-> "", text |-> Strip(resp.choices[1].text)]
    ELSE [err |-> "", text |-> <<>>]

\* lines 81-84: completion["choices"][0]["message"]["content"].strip()
ExtractReply(resp) ==
    IF ~resp.has_choices THEN [err |-> "KeyError", text |-> <<>>]
    ELSE IF resp.choices = <<>> THEN [err |-> "IndexError", text |-> <<>>]
    ELSE IF ~resp.choices[1].present THEN [err |-> "AttributeError", text |-> <<>>]
    ELSE [err |-> "", text |-> Strip(resp.choices[1].text)]

\* a slip: current_messages.append(...) and return current_messages
UpdatedMessagesInPlace(hp, t, cm, reply) ==
    [ heap |-> [hp EXCEPT ![cm] = @ \o <<Msg("assistant", reply)>>],
      ref |-> cm ]

\* line 87: current_messages + [{"role": "assistant", "content": ...}], a new list
UpdatedMessages(hp, t, cm, reply) ==
    [ heap |-> Alloc(hp, UpdatedRef(t), hp[cm] \o <<Msg("assistant", reply)>>),
      ref |-> UpdatedRef(t) ]

\* the caller builds a list h and calls get_agent_response(h)
Enter(t, h, n) ==
    /\ module_pc = "ready"
    /\ heap' = Alloc(Free(heap, RefsOf(t)), ArgRef(t), h)
    /\ locals' = [locals EXCEPT ![Frame(t)] = [NoLocals EXCEPT !.messages = ArgRef(t)]]
    /\ pc' = [pc EXCEPT ![t] = "normalise"]
    /\ result' = [result EXCEPT ![t] = NoRef]
    /\ exc' = [exc EXCEPT ![t] = ""]
    /\ input' = [input EXCEPT ![t] = h]
    /\ got' = [got EXCEPT ![t] = NoOutcome]
    /\ calls' = [calls EXCEPT ![t] = 0]
    /\ sent' = [sent EXCEPT ![t] = NoSent]
    /\ turn' = [turn EXCEPT ![t] = n]
    /\ ModuleUnchanged

Invoke(t, h) ==
    /\ pc[t] = "idle"
    /\ first' = [first EXCEPT ![t] = <<>>]
    /\ Enter(t, h, 1)

\* lines 70-74
Normalise(t) ==
    /\ pc[t] = "normalise"
    /\ LET e == EffectiveHistory(heap, t, Local(t).messages)
       IN /\ heap' = e.heap
          /\ locals' = [locals EXCEPT ![Frame(t)].current_messages = e.ref]
    /\ pc' = [pc EXCEPT ![t] = "request"]
    /\ UNCHANGED << result, exc, input, got, calls, sent, turn, first >>
    /\ ModuleUnchanged

\* lines 76-79: litellm.completion is called with the model and the history
Request(t) ==
    /\ pc[t] = "request"
    /\ calls' = [calls EXCEPT ![t] = @ + 1]
    /\ sent' = [sent EXCEPT ![t] =
                  [model |-> MODEL_NAME, messages |-> heap[Local(t).current_messages]]]
    /\ pc' = [pc EXCEPT ![t] = "waiting"]
    /\ UNCHANGED << locals, heap, result, exc, input, got, turn, first >>
    /\ ModuleUnchanged

\* what the provider can do for a request: without the credential only refuse
Allowed(o) == HasCredential \/ o = Raises("AuthenticationError")

\* a slip: a failed call is tried once more
ResponseRetrying(t, o) ==
    /\ pc[t] = "waiting"
    /\ Allowed(o)
    /\ got' = [got EXCEPT ![t] = o]
    /\ IF o.kind = "error"
       THEN /\ pc' = [pc EXCEPT ![t] = IF calls[t] < 2 THEN "request" ELSE "raised"]
            /\ exc' = [exc EXCEPT ![t] = IF calls[t] < 2 THEN "" ELSE o.err]
            /\ UNCHANGED locals
       ELSE /\ pc' = [pc EXCEPT ![t] = "extract"]
            /\ locals' = [locals EXCEPT ![Frame(t)].completion = o.resp]
            /\ UNCHANGED exc
    /\ UNCHANGED << heap, result, input, calls, sent, turn, first >>
    /\ ModuleUnchanged

\* a slip: a failed call is swallowed and the history returned without a reply
ResponseSwallowing(t, o) ==
    /\ pc[t] = "waiting"
    /\ Allowed(o)
    /\ got' = [got EXCEPT ![t] = o]
    /\ IF o.kind = "error"
       THEN /\ pc' = [pc EXCEPT ![t] = "returned"]
            /\ result' = [result EXCEPT ![t] = Local(t).current_messages]
            /\ UNCHANGED locals
       ELSE /\ pc' = [pc EXCEPT ![t] = "extract"]
            /\ locals' = [locals EXCEPT ![Frame(t)].completion = o.resp]
            /\ UNCHANGED result
    /\ UNCHANGED << heap, exc, input, calls, sent, turn, first >>
    /\ ModuleUnchanged

\* line 76: litellm.completion raises, and the exception leaves the function,
\* or it returns and the value is bound to completion
Response(t, o) ==
    /\ pc[t] = "waiting"
    /\ Allowed(o)
    /\ got' = [got EXCEPT ![t] = o]
    /\ IF o.kind = "error"
       THEN /\ pc' = [pc EXCEPT ![t] = "raised"]
            /\ exc' = [exc EXCEPT ![t] = o.err]
            /\ UNCHANGED locals
       ELSE /\ pc' = [pc EXCEPT ![t] = "extract"]
            /\ locals' = [locals EXCEPT ![Frame(t)].completion = o.resp]
            /\ UNCHANGED exc
    /\ UNCHANGED << heap, result, input, calls, sent, turn, first >>
    /\ ModuleUnchanged

\* lines 81-84
Extract(t) ==
    /\ pc[t] = "extract"
    /\ LET x == ExtractReply(Local(t).completion)
       IN IF x.err # ""
          THEN /\ pc' = [pc EXCEPT ![t] = "raised"]
               /\ exc' = [exc EXCEPT ![t] = x.err]
               /\ UNCHANGED locals
          ELSE /\ pc' = [pc EXCEPT ![t] = "append"]
               /\ locals' = [locals EXCEPT ![Frame(t)].assistant_reply_content = x.text]
               /\ UNCHANGED exc
    /\ UNCHANGED << heap, result, input, got, calls, sent, turn, first >>
    /\ ModuleUnchanged

\* lines 86-88
Return(t) ==
    /\ pc[t] = "append"
    /\ LET u == UpdatedMessages(heap, t, Local(t).current_messages,
                                Local(t).assistant_reply_content)
       IN /\ heap' = u.heap
          /\ result' = [result EXCEPT ![t] = u.ref]
          /\ first' = [first EXCEPT ![t] = IF turn[t] = 1 THEN u.heap[u.ref] ELSE @]
    /\ pc' = [pc EXCEPT ![t] = "returned"]
    /\ UNCHANGED << locals, exc, input, got, calls, sent, turn >>
    /\ ModuleUnchanged

\* the caller appends messages of its own to the conversation it got back
\* and calls again
FeedBack(t, extra) ==
    /\ pc[t] = "returned"
    /\ turn[t] < MaxTurns
    /\ UNCHANGED first
    /\ Enter(t, heap[result[t]] \o extra, turn[t] + 1)

\* the caller is done with the outcome and drops its lists
Finish(t) ==
    /\ pc[t] \in {"returned", "raised"}
    /\ pc' = [pc EXCEPT ![t] = "idle"]
    /\ heap' = Free(heap, RefsOf(t))
    /\ locals' = [locals EXCEPT ![Frame(t)] = NoLocals]
    /\ result' = [result EXCEPT ![t] = NoRef]
    /\ exc' = [exc EXCEPT ![t] = ""]
    /\ input' = [input EXCEPT ![t] = <<>>]
    /\ got' = [got EXCEPT ![t] = NoOutcome]
    /\ calls' = [calls EXCEPT ![t] = 0]
    /\ sent' = [sent EXCEPT ![t] = NoSent]
    /\ turn' = [turn EXCEPT ![t] = 0]
    /\ first' = [first EXCEPT ![t] = <<>>]
    /\ ModuleUnchanged

(* --------------------------- specifications --------------------------- *)

CallersInit ==
    /\ pc = [t \in Threads |-> "idle"]
    /\ locals = [t \in Threads |-> NoLocals]
    /\ heap = EmptyHeap
    /\ result = [t \in Threads |-> NoRef]
    /\ exc = [t \in Threads |-> ""]
    /\ input = [t \in Threads |-> <<>>]
    /\ got = [t \in Threads |-> NoOutcome]
    /\ calls = [t \in Threads |-> 0]
    /\ sent = [t \in Threads |-> NoSent]
    /\ turn = [t \in Threads |-> 0]
    /\ first = [t \in Threads |-> <<>>]

ModuleInit ==
    /\ module_pc = "load_dotenv"
    /\ SYSTEM_PROMPT = <<>>
    /\ MODEL_NAME = "<unset>"

\* one caller, every environment, every history and every provider outcome
Init ==
    /\ ModuleInit
    /\ os_environ \in OsEnvs
    /\ dotenv_file \in DotEnvs
    /\ CallersInit

Next ==
    \/ RunLoadDotenv
    \/ DefineSystemPrompt
    \/ DefineModelName
    \/ \E h \in Histories(MaxHistLen) : Invoke("t1", h)
    \/ Normalise("t1")
    \/ Request("t1")
    \/ \E o \in Outcomes : Response("t1", o)
    \/ Extract("t1")
    \/ Return("t1")
    \/ Finish("t1")

Spec == Init /\ [][Next]_vars

\* two callers interleaved, the credential in the environment
ConcInit ==
    /\ ModuleInit
    /\ os_environ = [k \in {"API_KEY"} |-> "key-from-env"]
    /\ dotenv_file = [k \in {"MODEL_NAME"} |-> "model-from-dotenv"]
    /\ CallersInit

ConcNext ==
    \/ RunLoadDotenv
    \/ DefineSystemPrompt
    \/ DefineModelName
    \/ \E t \in Threads : \E h \in Histories(MaxConcLen) : Invoke(t, h)
    \/ \E t \in Threads : Normalise(t)
    \/ \E t \in Threads : Request(t)
    \/ \E t \in Threads : \E o \in FewOutcomes : Response(t, o)
    \/ \E t \in Threads : Extract(t)
    \/ \E t \in Threads : Return(t)
    \/ \E t \in Threads : Finish(t)

ConcSpec == ConcInit /\ [][ConcNext]_vars

\* one caller in a multi-turn session: each returned conversation is extended
\* with messages that are not system messages and passed in again
SessionNext ==
    \/ RunLoadDotenv
    \/ DefineSystemPrompt
    \/ DefineModelName
    \/ \E h \in Histories(MaxHistLen) : Invoke("t1", h)
    \/ Normalise("t1")
    \/ Request("t1")
    \/ \E o \in FewOutcomes : Response("t1", o)
    \/ Extract("t1")
    \/ Return("t1")
    \/ \E extra \in UNION {SeqsOfLen(NonSystemMessages, k) : k \in 0..1} :
          FeedBack("t1", extra)
    \/ Finish("t1")

SessionSpec == ConcInit /\ [][SessionNext]_vars

(* ------------------------------ claims -------------------------------- *)

Returned(t) == pc[t] = "returned"
Raised(t) == pc[t] = "raised"
ResultOf(t) == heap[result[t]]
Front(s) == SubSeq(s, 1, Len(s) - 1)
Last(s) == s[Len(s)]
StartsWithSystem(h) == h # <<>> /\ h[1].role = "system"
FixedSystemMessage == Msg("system", SystemPromptText)
ExpectedEffective(h) == IF StartsWithSystem(h) THEN h ELSE <<FixedSystemMessage>> \o h
ReplyText(t) == got[t].resp.choices[1].text
CountRole(s, r) == Cardinality({i \in 1..Len(s) : s[i].role = r})

\* out is s without its leading and trailing whitespace
IsTrimOf(out, s) ==
    \E i \in 0..Len(s) : \E j \in 0..Len(s) :
        /\ i + j <= Len(s)
        /\ out = SubSeq(s, i + 1, Len(s) - j)
        /\ \A k \in 1..i : s[k] \in Whitespace
        /\ \A k \in (Len(s) - j + 1)..Len(s) : s[k] \in Whitespace
        /\ out # <<>> => (out[1] \notin Whitespace /\ Last(out) \notin Whitespace)

Malformed(r) == ~r.has_choices \/ r.choices = <<>> \/ ~r.choices[1].present

\* C1: when the history passed in is empty or does not start with a "system"
\* message, the returned conversation without its last element is the fixed
\* system message followed by the whole history, in order.
C1_DefaultPrefixing ==
    \A t \in Threads :
        (Returned(t) /\ ~StartsWithSystem(input[t]))
            => Front(ResultOf(t)) = <<FixedSystemMessage>> \o input[t]

C1_Witness ==
    /\ Returned("t1")
    /\ Len(input["t1"]) = 2
    /\ input["t1"][1].role = "tool"
    /\ input["t1"][2].role = "assistant"

\* C2: when the history passed in starts with a "system" message, the returned
\* conversation without its last element is that history exactly: no second
\* system message, and the caller's system message is kept.
C2_IdempotentPrefixing ==
    \A t \in Threads :
        (Returned(t) /\ StartsWithSystem(input[t])) => Front(ResultOf(t)) = input[t]

C2_Witness ==
    /\ Returned("t1")
    /\ Len(input["t1"]) = 2
    /\ input["t1"][1] = Msg("system", CustomPromptText)

\* C3: a returned conversation is the history sent to the provider followed by
\* one message, whose role is "assistant" and whose content is the reply text
\* of the first choice without leading and trailing whitespace; it is one
\* longer than the history sent and not shorter than the history passed in.
C3_ResultGuarantee ==
    \A t \in Threads :
        Returned(t) =>
            LET r == ResultOf(t)
            IN /\ Len(r) = Len(sent[t].messages) + 1
               /\ Front(r) = sent[t].messages
               /\ Last(r).role = "assistant"
               /\ IsTrimOf(Last(r).content, ReplyText(t))
               /\ Len(r) >= Len(input[t])

C3_Witness ==
    /\ Returned("t1")
    /\ ReplyText("t1") = <<" ", "a", "\n">>
    /\ Last(ResultOf("t1")).content = <<"a">>

\* C4: from the call on, in both branches and whether the call returns or
\* raises, the list passed in holds the elements it held at the call, and the
\* list returned is another list object.
C4_NonMutation ==
    \A t \in Threads :
        pc[t] # "idle" =>
            /\ heap[ArgRef(t)] = input[t]
            /\ Returned(t) => result[t] # ArgRef(t)

C4_Witness ==
    /\ Returned("t1")
    /\ StartsWithSystem(input["t1"])
    /\ Local("t1").current_messages = ArgRef("t1")

\* C5: when litellm.completion raises, the call ends with that exception and
\* returns no list; a call ends either with a returned conversation that ends
\* in the assistant's reply and no exception, or with an exception and no list.
C5_NoPartialSuccess ==
    \A t \in Threads :
        /\ got[t].kind = "error" =>
              (Raised(t) /\ exc[t] = got[t].err /\ result[t] = NoRef)
        /\ result[t] # NoRef => Returned(t)
        /\ Returned(t) =>
              /\ exc[t] = ""
              /\ result[t] # NoRef
              /\ Len(ResultOf(t)) = Len(sent[t].messages) + 1
              /\ Last(ResultOf(t)).role = "assistant"
        /\ Raised(t) => (exc[t] # "" /\ result[t] = NoRef)

C5_Witness ==
    /\ Raised("t1")
    /\ got["t1"] = Raises("RateLimitError")
    /\ HasCredential

\* C6: when the completion has no reply text to extract (no choices entry, an
\* empty choices list, or a first choice without content), the call ends with
\* an exception of the extraction, which is none of the provider's, and
\* returns no list.
C6_MalformedDistinct ==
    \A t \in Threads :
        (got[t].kind = "response" /\ Malformed(got[t].resp)) =>
            /\ pc[t] \in {"extract", "raised"}
            /\ result[t] = NoRef
            /\ Raised(t) => (exc[t] \in ExtractionErrors /\ exc[t] \notin ProviderErrors)

C6_Witness ==
    /\ Raised("t1")
    /\ got["t1"] = Returns(Choices(<<>>))
    /\ exc["t1"] = "IndexError"

\* C7 as stated: no call of the provider is made while the credential is
\* absent from the environment (a configuration error would come first).
C7_Original ==
    \A t \in Threads : calls[t] > 0 => HasCredential

\* C7 amended: the module-level code completes whatever the environment holds;
\* with the credential absent a call still makes its one request and ends with
\* the provider's exception; with MODEL_NAME absent the model is "gpt-4o-mini".
C7_Amended ==
    /\ module_pc # "ConfigurationError"
    /\ (module_pc = "ready" /\ "MODEL_NAME" \notin DOMAIN os_environ)
          => MODEL_NAME = "gpt-4o-mini"
    /\ \A t \in Threads :
          (~HasCredential /\ pc[t] \in {"returned", "raised"})
              => (Raised(t) /\ exc[t] \in ProviderErrors /\ calls[t] = 1)

C7_Witness ==
    /\ module_pc = "ready"
    /\ DOMAIN os_environ = {}
    /\ MODEL_NAME = "gpt-4o-mini"
    /\ Raised("t1")
    /\ calls["t1"] = 1

ConfiguredModel ==
    IF "MODEL_NAME" \in DOMAIN os_environ THEN os_environ["MODEL_NAME"] ELSE "gpt-4o-mini"

\* C8: an invocation calls litellm.completion exactly once, with the
\* configured model and the whole effective history, whether the call
\* returns, raises or returns a malformed completion; never a second call.
C8_ExactlyOneCall ==
    \A t \in Threads :
        /\ calls[t] <= 1
        /\ pc[t] \in {"normalise", "request"} => calls[t] = 0
        /\ pc[t] \in {"waiting", "extract", "append", "returned", "raised"} =>
              /\ calls[t] = 1
              /\ sent[t].model = ConfiguredModel
              /\ sent[t].messages = ExpectedEffective(input[t])

C8_Witness ==
    /\ Raised("t1")
    /\ calls["t1"] = 1
    /\ got["t1"] = Raises("APIConnectionError")
    /\ sent["t1"].model = "model-from-dotenv"
    /\ Len(sent["t1"].messages) = 3

\* the outcome of get_agent_response(h) run alone, given the provider's outcome o
AloneOutcome(h, o) ==
    LET a == ArgRef("t1")
        e == EffectiveHistory(Alloc(EmptyHeap, a, h), "t1", a)
        x == ExtractReply(o.resp)
    IN IF o.kind = "error" THEN [pc |-> "raised", exc |-> o.err, value |-> <<>>]
       ELSE IF x.err # "" THEN [pc |-> "raised", exc |-> x.err, value |-> <<>>]
       ELSE LET u == UpdatedMessages(e.heap, "t1", e.ref, x.text)
            IN [pc |-> "returned", exc |-> "", value |-> u.heap[u.ref]]

Independent ==
    \A t \in Threads :
        /\ pc[t] \in {"waiting", "extract", "append", "returned", "raised"}
              => sent[t].messages = ExpectedEffective(input[t])
        /\ pc[t] \in {"returned", "raised"} =>
              LET alone == AloneOutcome(input[t], got[t])
              IN /\ pc[t] = alone.pc
                 /\ exc[t] = alone.exc
                 /\ Returned(t) => ResultOf(t) = alone.value

ConstantsReadOnly ==
    module_pc = "ready" => (SYSTEM_PROMPT' = SYSTEM_PROMPT /\ MODEL_NAME' = MODEL_NAME)

\* C9: under every interleaving of two callers with lists of their own, each
\* call ends as it would run alone with the same provider outcome, and once
\* the module is loaded SYSTEM_PROMPT and MODEL_NAME never change.
C9_ConcurrentIndependent == [](Independent) /\ [][ConstantsReadOnly]_vars

C9_Witness ==
    /\ Returned("t1")
    /\ Returned("t2")
    /\ input["t1"] # input["t2"]
    /\ got["t1"] # got["t2"]
    /\ StartsWithSystem(input["t1"])
    /\ ~StartsWithSystem(input["t2"])

\* C10: in a session that passes each returned conversation in again after
\* appending messages that are not system messages, every returned
\* conversation starts with a "system" message, the one the first returned
\* conversation starts with; the function adds a system message at most in the
\* first call and only in front of a history that lacks one; every call adds
\* exactly one assistant message, at the end, and every later call returns its
\* input followed by that message.
C10_MultiTurnStable ==
    \A t \in Threads :
        Returned(t) =>
            LET r == ResultOf(t)
                h == input[t]
            IN /\ r[1].role = "system"
               /\ r[1] = first[t][1]
               /\ Last(r).role = "assistant"
               /\ CountRole(r, "assistant") = CountRole(h, "assistant") + 1
               /\ CountRole(r, "system") =
                     CountRole(h, "system")
                     + (IF turn[t] = 1 /\ ~StartsWithSystem(h) THEN 1 ELSE 0)
               /\ turn[t] > 1 => Front(r) = h

C10_Witness ==
    /\ Returned("t1")
    /\ turn["t1"] = 2
    /\ first["t1"][1] = FixedSystemMessage
    /\ Len(first["t1"]) = 3
    /\ Len(ResultOf("t1")) = 5
    /\ ResultOf("t1")[4].role = "user"

====
